---- MODULE Spec2Model ----
(***************************************************************************)
(* A model of human_typist.py: the HumanTyper typing engine (tokenizer,    *)
(* typo injection with self-correction, the cancellable background         *)
(* session) and the App handlers that drive it.                            *)
(*                                                                         *)
(* Text is a sequence of one-character strings.  Time is not modelled:     *)
(* every time.sleep is a point where other threads may run.  Probabilities *)
(* are kept in percent (the App divides the entry by 100; here the entry   *)
(* value itself is kept), and random.random() is a draw from RandomDraws,  *)
(* also in percent.                                                        *)
(***************************************************************************)
EXTENDS Integers, Sequences, FiniteSets, TLC

VARIABLES
    Controller,   \* TRUE iff "from pynput.keyboard import Controller" succeeded
    typers,       \* the HumanTyper instances created so far
    threads,      \* the background threads created by HumanTyper.start
    input,        \* the arguments the caller passes to start: text, countdown
    starts_left,  \* how many more start calls the caller makes
    app,          \* App fields: typer, start_btn, stop_btn, status, polls
    form,         \* the entries of the settings panel
    tk,           \* the tokenizer loop of type_text, run on its own
    dl            \* a call of _char_delay, run on its own

vars == <<Controller, typers, threads, input, starts_left, app, form, tk, dl>>

----------------------------------------------------------------------------
(* Bounds *)

MaxLen == 4          \* longest text passed to start in Spec
MaxTokLen == 4       \* longest text given to the tokenizer in SpecTok
MaxCountdown == 2    \* largest countdown passed to start
MaxStarts == 2       \* start calls on one HumanTyper in SpecCtl
MaxAppStarts == 2    \* presses of the Start button in SpecApp

----------------------------------------------------------------------------
(* Characters *)

Letters == {"a", "b"}
UpperLetters == {"A", "B"}
Whitespace == {" ", "\n", "\r"}

IsAlnum(c) == c \in Letters \cup UpperLetters
IsSpace(c) == c \in Whitespace
IsUpper(c) == c \in UpperLetters

Upper(c) == IF c = "a" THEN "A" ELSE IF c = "b" THEN "B" ELSE c
Lower(c) == IF c = "A" THEN "a" ELSE IF c = "B" THEN "b" ELSE c

\* The rows of the table for the characters the model's texts are made of.
QWERTY_NEIGHBORS ==
    [c \in {"a", "b", ",", ".", ";", "'"} |->
        CASE c = "a" -> {"q", "w", "s", "z"}
          [] c = "b" -> {"v", "g", "h", "n"}
          [] c = "," -> {"k", "m", "l", "."}
          [] c = "." -> {",", ";", "l", "/"}
          [] c = ";" -> {"l", ",", "p", "."}
          [] c = "'" -> {";"}]

PUNCTUATION_SET == {",", ".", "!", "?", ";", ":"}

keep_case(src_char, neighbor) ==
    IF IsUpper(src_char) THEN Upper(neighbor) ELSE neighbor

\* The set of characters adjacent_key(char) can return.
adjacent_key(char) ==
    LET base == Lower(char) IN
    IF base \in DOMAIN QWERTY_NEIGHBORS /\ QWERTY_NEIGHBORS[base] # {}
    THEN {keep_case(char, n) : n \in QWERTY_NEIGHBORS[base]}
    ELSE IF IsUpper(char) THEN UpperLetters ELSE Letters

----------------------------------------------------------------------------
(* Sequences of characters *)

Prefix(s, n) == SubSeq(s, 1, n)            \* s[:n]
Suffix(s, n) == SubSeq(s, n + 1, Len(s))   \* s[n:]

RECURSIVE Concat(_)
Concat(ts) == IF ts = <<>> THEN <<>> ELSE Head(ts) \o Concat(Tail(ts))

\* text.replace("\r\n", "\n")
RECURSIVE ReplaceCRLF(_)
ReplaceCRLF(s) ==
    IF Len(s) < 2 THEN s
    ELSE IF s[1] = "\r" /\ s[2] = "\n"
         THEN <<"\n">> \o ReplaceCRLF(Suffix(s, 2))
         ELSE <<s[1]>> \o ReplaceCRLF(Tail(s))

\* .replace("\r", "\n")
ReplaceCR(s) == [i \in 1..Len(s) |-> IF s[i] = "\r" THEN "\n" ELSE s[i]]

Normalize(text) == ReplaceCR(ReplaceCRLF(text))

----------------------------------------------------------------------------
(* Tokenizer: the scan at the head of type_text *)

IsWordChar(ch) == IsAlnum(ch) \/ ch \in {"'", "_"}

\* One iteration of "for ch in text" on the pair (tokens, current).
TokStep_DropSeparator(st, ch) ==
    IF IsWordChar(ch)
    THEN [st EXCEPT !.current = Append(@, ch)]
    ELSE [tokens  |-> IF st.current # <<>> THEN Append(st.tokens, st.current)
                      ELSE st.tokens,
          current |-> <<>>]

TokStep(st, ch) ==
    IF IsWordChar(ch)
    THEN [st EXCEPT !.current = Append(@, ch)]
    ELSE [tokens  |-> Append(IF st.current # <<>>
                             THEN Append(st.tokens, st.current)
                             ELSE st.tokens, <<ch>>),
          current |-> <<>>]

\* "if current: tokens.append(...)" after the loop.
TokFlush(st) ==
    IF st.current # <<>> THEN Append(st.tokens, st.current) ELSE st.tokens

RECURSIVE TokScan(_, _)
TokScan(st, text) ==
    IF text = <<>> THEN st ELSE TokScan(TokStep(st, Head(text)), Tail(text))

Tokenize(text) == TokFlush(TokScan([tokens |-> <<>>, current |-> <<>>], text))

\* token.strip() == ""
IsBlank(token) == \A i \in 1..Len(token) : IsSpace(token[i])

\* token.isalnum()
IsAlnumStr(token) == token # <<>> /\ \A i \in 1..Len(token) : IsAlnum(token[i])

\* token.replace("'", "")
RECURSIVE RemoveApostrophes(_)
RemoveApostrophes(token) ==
    IF token = <<>> THEN <<>>
    ELSE IF Head(token) = "'" THEN RemoveApostrophes(Tail(token))
         ELSE <<Head(token)>> \o RemoveApostrophes(Tail(token))

\* The condition of the "word" branch of type_text.
IsWord(token) ==
    \/ IsAlnumStr(token)
    \/ /\ \E i \in 1..Len(token) : token[i] = "'"
       /\ IsAlnumStr(RemoveApostrophes(token))

\* token in PUNCTUATION_SET
IsPunct(token) == Len(token) = 1 /\ token[1] \in PUNCTUATION_SET

----------------------------------------------------------------------------
(* Typo strategies *)

\* The values random.random() is drawn from, in percent.
RandomDraws == {0, 50, 99}

\* The setting read as if corrections were always enabled.
CorrectionsOff_Ignored(s) == FALSE

\* "if not self.settings.enable_corrections": the first test of both
\* typo strategies.
CorrectionsOff(s) == ~s.enable_corrections

NoTypo ==
    [did_typo |-> FALSE, kind |-> "none", idx |-> 0, typed |-> <<>>,
     backspaces |-> 0, retype |-> <<>>, typed_prefix |-> <<>>]

\* Each strategy is the set of outcomes its random draws allow.  typed is
\* the text handed to the first _type_slow, backspaces the argument of
\* _backspace, retype the text of the second _type_slow (omission only),
\* and (did_typo, typed_prefix) the returned tuple.  idx is the 0-based i.
Substitution(word) ==
    UNION {{[did_typo |-> TRUE, kind |-> "substitution", idx |-> i,
             typed |-> Prefix(word, i) \o <<wrong>>, backspaces |-> 1,
             retype |-> <<>>, typed_prefix |-> Prefix(word, i) \o <<wrong>>] :
               wrong \in adjacent_key(word[i + 1])} :
           i \in 0..(Len(word) - 1)}

Transposition(word) ==
    IF Len(word) >= 4
    THEN {IF IsSpace(word[i + 1]) \/ IsSpace(word[i + 2])
          THEN NoTypo
          ELSE [did_typo |-> TRUE, kind |-> "transposition", idx |-> i,
                typed |-> Prefix(word, i) \o <<word[i + 2], word[i + 1]>>,
                backspaces |-> 2, retype |-> <<>>,
                typed_prefix |-> Prefix(word, i) \o <<word[i + 2], word[i + 1]>>] :
            i \in 0..(Len(word) - 2)}
    ELSE {NoTypo}

Duplicate(word) ==
    {[did_typo |-> TRUE, kind |-> "duplicate", idx |-> i,
      typed |-> Prefix(word, i + 1) \o <<word[i + 1]>>, backspaces |-> 1,
      retype |-> <<>>, typed_prefix |-> Prefix(word, i + 1) \o <<word[i + 1]>>] :
        i \in 0..(Len(word) - 1)}

\* The omission strategy reporting the characters typed before the
\* correction instead of the retyped prefix.
Omission_NoRetyped(word) ==
    {[did_typo |-> TRUE, kind |-> "omission", idx |-> i,
      typed |-> Prefix(word, i), backspaces |-> Len(Prefix(word, i)),
      retype |-> Prefix(word, i), typed_prefix |-> <<>>] :
        i \in 1..(Len(word) - 2)}

Omission(word) ==
    {[did_typo |-> TRUE, kind |-> "omission", idx |-> i,
      typed |-> Prefix(word, i), backspaces |-> Len(Prefix(word, i)),
      retype |-> Prefix(word, i), typed_prefix |-> Prefix(word, i)] :
        i \in 1..(Len(word) - 2)}

MaybeLetterTypo_ShortWords(word, s) ==
    IF CorrectionsOff(s) THEN {NoTypo}
    ELSE IF Len(word) < 2 THEN {NoTypo}
    ELSE {NoTypo : r \in {d \in RandomDraws : d >= s.letter_typo_rate}}
         \cup
         IF \E d \in RandomDraws : d < s.letter_typo_rate
         THEN Substitution(word) \cup Transposition(word)
              \cup Duplicate(word) \cup Omission(word)
         ELSE {}

\* The outcomes of _maybe_letter_typo(word, base_wpm) under settings s.
MaybeLetterTypo(word, s) ==
    IF CorrectionsOff(s) THEN {NoTypo}
    ELSE IF Len(word) < 3 THEN {NoTypo}
    ELSE {NoTypo : r \in {d \in RandomDraws : d >= s.letter_typo_rate}}
         \cup
         IF \E d \in RandomDraws : d < s.letter_typo_rate
         THEN Substitution(word) \cup Transposition(word)
              \cup Duplicate(word) \cup Omission(word)
         ELSE {}

MaybePunctTypo_SameAllowed(punct, s) ==
    IF CorrectionsOff(s) THEN {NoTypo}
    ELSE IF punct \notin PUNCTUATION_SET THEN {NoTypo}
    ELSE {NoTypo : r \in {d \in RandomDraws : d >= s.punct_typo_rate}}
         \cup
         IF \E d \in RandomDraws : d < s.punct_typo_rate
         THEN {[did_typo |-> TRUE, kind |-> "punct", idx |-> 0,
                typed |-> <<wrong>>, backspaces |-> 1, retype |-> <<>>,
                typed_prefix |-> <<>>] : wrong \in PUNCTUATION_SET}
         ELSE {}

\* The outcomes of _maybe_punct_typo(punct, base_wpm): the wrong character
\* to type first, or none.
MaybePunctTypo(punct, s) ==
    IF CorrectionsOff(s) THEN {NoTypo}
    ELSE IF punct \notin PUNCTUATION_SET THEN {NoTypo}
    ELSE {NoTypo : r \in {d \in RandomDraws : d >= s.punct_typo_rate}}
         \cup
         IF \E d \in RandomDraws : d < s.punct_typo_rate
         THEN {[did_typo |-> TRUE, kind |-> "punct", idx |-> 0,
                typed |-> <<wrong>>, backspaces |-> 1, retype |-> <<>>,
                typed_prefix |-> <<>>] : wrong \in PUNCTUATION_SET \ {punct}}
         ELSE {}

----------------------------------------------------------------------------
(* HumanTyper: the background thread *)

BACKSPACE == "<backspace>"
ENTER == "<enter>"

\* The key _type_char(c) sends to the keyboard.
KeyOf(c) == IF c = "\n" THEN ENTER ELSE c

Preparing == [msg |-> "Click into your target text field now...", sec |-> 0]
StartsIn(sec) == [msg |-> "Typing starts in", sec |-> sec]
TypingMsg == [msg |-> "Typing...", sec |-> 0]
DoneMsg == [msg |-> "Done or stopped.", sec |-> 0]

\* The thread made by start(text, countdown) of typer y, before run() runs.
\* keys, sent, observed, tok_kind, tok_idx and tok_start record what the
\* thread did: the keys it sent to the keyboard, the messages it gave to
\* ui_callback, whether a test of stop_event found it set, and for the
\* token being processed the typo chosen, the length of keys when the
\* token began and the branch of type_text that handles it.
NewThread(y, text, countdown) ==
    [typer |-> y, pc |-> "prepare", text |-> text, countdown |-> countdown,
     sec |-> countdown, tokens |-> <<>>, i |-> 0,
     buf |-> <<>>, ret |-> "none", bs |-> 0, retype |-> <<>>,
     did_typo |-> FALSE, typed_prefix |-> <<>>, exc |-> "none",
     keys |-> <<>>, sent |-> <<>>, observed |-> FALSE,
     tok_kind |-> "none", tok_idx |-> 0, tok_start |-> 0, branch |-> "none"]

Live(th) == th.pc \notin {"done", "raised"}

\* self.ui_callback(m) by thread t, which becomes th.
Callback(t, th, m) ==
    LET cb == typers[th.typer].ui_callback IN
    /\ threads' = [threads EXCEPT
                     ![t] = IF cb # "none"
                            THEN [th EXCEPT !.sent = Append(@, m)] ELSE th]
    /\ app' = IF cb = "post_status" THEN [app EXCEPT !.status = m] ELSE app

\* An exception leaves run(): the thread dies where it is.
Raise(th, e) == [th EXCEPT !.pc = "raised", !.exc = e]

\* _type_slow returns to its caller.
Return(th) ==
    CASE th.ret = "next"       -> [th EXCEPT !.pc = "loop", !.i = @ + 1]
      [] th.ret = "backspace"  -> [th EXCEPT !.pc = "backspace"]
      [] th.ret = "after_typo" -> [th EXCEPT !.pc = "after_typo"]

\* self._type_slow(text, base_wpm), to continue at ret when it returns.
CallSlow(th, text, ret) ==
    IF text = <<>>
    THEN Return([th EXCEPT !.ret = ret])
    ELSE [th EXCEPT !.pc = "slow", !.buf = text, !.ret = ret]

\* run(): the "preparing" status.
RunPrepare ==
    \E t \in DOMAIN threads :
        /\ threads[t].pc = "prepare"
        /\ Callback(t, [threads[t] EXCEPT !.pc = "countdown"], Preparing)
        /\ UNCHANGED <<Controller, typers, input, starts_left, form, tk, dl>>

\* run(): one round of the countdown loop; the stop flag is not read.
RunCountdown ==
    \E t \in DOMAIN threads :
        /\ threads[t].pc = "countdown"
        /\ threads[t].sec > 0
        /\ Callback(t, [threads[t] EXCEPT !.sec = @ - 1], StartsIn(threads[t].sec))
        /\ UNCHANGED <<Controller, typers, input, starts_left, form, tk, dl>>

\* run(): "Typing..." and the head of type_text: the keyboard test, the
\* normalisation and the tokenizer.
RunTypeText ==
    \E t \in DOMAIN threads :
        LET th == threads[t] IN
        /\ th.pc = "countdown"
        /\ th.sec = 0
        /\ Callback(t,
                    IF typers[th.typer].keyboard
                    THEN [th EXCEPT !.pc = "loop", !.i = 0,
                                    !.tokens = Tokenize(Normalize(th.text))]
                    ELSE Raise(th, "RuntimeError"),
                    TypingMsg)
        /\ UNCHANGED <<Controller, typers, input, starts_left, form, tk, dl>>

\* type_text: the test of the while loop and the dispatch on the token.
\* A typo strategy that fires goes on in TypeSlow and Backspace; one that
\* does not fire returns at once, and the token is typed by _type_slow.
LoopHead ==
    \E t \in DOMAIN threads :
        LET th    == threads[t]
            y     == typers[th.typer]
            token == th.tokens[th.i + 1]
            th0   == [th EXCEPT !.tok_kind = "none", !.tok_idx = 0,
                                 !.tok_start = Len(th.keys), !.did_typo = FALSE,
                                 !.typed_prefix = <<>>, !.bs = 0, !.retype = <<>>]
            Plain(br) == CallSlow([th0 EXCEPT !.branch = br], token, "next")
            Typo(br, o) ==
                CallSlow([th0 EXCEPT !.branch = br,
                                     !.tok_kind = o.kind, !.tok_idx = o.idx,
                                     !.did_typo = TRUE,
                                     !.typed_prefix = o.typed_prefix,
                                     !.bs = o.backspaces, !.retype = o.retype],
                         o.typed, "backspace")
        IN
        /\ th.pc = "loop"
        /\ IF th.i >= Len(th.tokens)
           THEN threads' = [threads EXCEPT ![t] = [th EXCEPT !.pc = "finish"]]
           ELSE IF y.stop_event
           THEN threads' = [threads EXCEPT
                              ![t] = [th EXCEPT !.pc = "finish", !.observed = TRUE]]
           ELSE IF IsBlank(token)
           THEN threads' = [threads EXCEPT ![t] = Plain("blank")]
           ELSE IF IsWord(token)
           THEN \E o \in MaybeLetterTypo(token, y.settings) :
                   threads' = [threads EXCEPT
                                 ![t] = IF o.did_typo THEN Typo("word", o)
                                        ELSE Plain("word")]
           ELSE IF IsPunct(token)
           THEN \E o \in MaybePunctTypo(token[1], y.settings) :
                   threads' = [threads EXCEPT
                                 ![t] = IF o.did_typo THEN Typo("punct", o)
                                        ELSE Plain("punct")]
           ELSE threads' = [threads EXCEPT ![t] = Plain("other")]
        /\ UNCHANGED <<Controller, typers, input, starts_left, app, form, tk, dl>>

\* _type_slow: one round of its loop: the test of the stop flag, then
\* _type_char and the sleep.  The keyboard call may raise.
TypeSlow ==
    \E t \in DOMAIN threads :
        LET th == threads[t]
            y  == typers[th.typer]
            typed == [th EXCEPT !.buf = Tail(@),
                                !.keys = IF y.keyboard
                                         THEN Append(@, KeyOf(Head(th.buf))) ELSE @]
        IN
        /\ th.pc = "slow"
        /\ IF y.stop_event
           THEN threads' = [threads EXCEPT
                              ![t] = Return([th EXCEPT !.buf = <<>>, !.observed = TRUE])]
           ELSE \E ok \in BOOLEAN :
                   threads' = [threads EXCEPT
                                 ![t] = IF y.keyboard /\ ~ok
                                        THEN Raise(th, "ActuatorError")
                                        ELSE IF typed.buf = <<>> THEN Return(typed)
                                        ELSE typed]
        /\ UNCHANGED <<Controller, typers, input, starts_left, app, form, tk, dl>>

\* _backspace(n): one round of its loop, reached after the sleep for the
\* correction latency; the stop flag is not read.  After the last round
\* the omission strategy retypes the prefix, and the strategy returns.
Backspace ==
    \E t \in DOMAIN threads :
        LET th == threads[t]
            y  == typers[th.typer]
            pressed == [th EXCEPT !.bs = @ - 1,
                                  !.keys = IF y.keyboard THEN Append(@, BACKSPACE) ELSE @]
        IN
        /\ th.pc = "backspace"
        /\ \E ok \in BOOLEAN :
              threads' = [threads EXCEPT
                            ![t] = IF y.keyboard /\ ~ok
                                   THEN Raise(th, "ActuatorError")
                                   ELSE IF pressed.bs > 0 THEN pressed
                                   ELSE CallSlow([pressed EXCEPT !.retype = <<>>],
                                                 th.retype, "after_typo")]
        /\ UNCHANGED <<Controller, typers, input, starts_left, app, form, tk, dl>>

\* type_text after a typo strategy returned: the test of the stop flag,
\* then the remainder of the word, or the punctuation itself.
AfterTypo ==
    \E t \in DOMAIN threads :
        LET th    == threads[t]
            token == th.tokens[th.i + 1]
            remaining == IF th.tok_kind = "punct" THEN token
                         ELSE IF th.did_typo THEN Suffix(token, Len(th.typed_prefix))
                         ELSE token
        IN
        /\ th.pc = "after_typo"
        /\ threads' = [threads EXCEPT
                         ![t] = IF typers[th.typer].stop_event
                                THEN [th EXCEPT !.pc = "finish", !.observed = TRUE]
                                ELSE CallSlow(th, remaining, "next")]
        /\ UNCHANGED <<Controller, typers, input, starts_left, app, form, tk, dl>>

\* run(): type_text returned; the last status.
Finish ==
    \E t \in DOMAIN threads :
        /\ threads[t].pc = "finish"
        /\ Callback(t, [threads[t] EXCEPT !.pc = "done"], DoneMsg)
        /\ UNCHANGED <<Controller, typers, input, starts_left, form, tk, dl>>

\* A step of a background thread.
ThreadStep ==
    \/ RunPrepare
    \/ RunCountdown
    \/ RunTypeText
    \/ LoopHead
    \/ TypeSlow
    \/ Backspace
    \/ AfterTypo
    \/ Finish

----------------------------------------------------------------------------
(* HumanTyper: the public controls *)

\* start(text, countdown) on typer y.
Start ==
    \E y \in DOMAIN typers :
        /\ starts_left > 0
        /\ starts_left' = starts_left - 1
        /\ typers' = [typers EXCEPT ![y].stop_event = FALSE]
        /\ threads' = Append(threads, NewThread(y, input.text, input.countdown))
        /\ UNCHANGED <<Controller, input, app, form, tk, dl>>

\* stop() on typer y.
Stop ==
    \E y \in DOMAIN typers :
        /\ typers' = [typers EXCEPT ![y].stop_event = TRUE]
        /\ UNCHANGED <<Controller, threads, input, starts_left, app, form, tk, dl>>

----------------------------------------------------------------------------
(* The specification of one HumanTyper driven through start and stop *)

TextChars == {"a", "b", ",", " "}

TextsUpTo(chars, n) == UNION {[1..k -> chars] : k \in 0..n}

DefaultSettings ==
    [min_wpm |-> 45, max_wpm |-> 70, letter_typo_rate |-> 3,
     punct_typo_rate |-> 2, enable_corrections |-> TRUE,
     think_pause_chance |-> 8]

\* HumanTyper(settings, ui_callback)
NewTyper(settings, ui_callback) ==
    [settings |-> settings, keyboard |-> Controller,
     ui_callback |-> ui_callback, stop_event |-> FALSE]

\* App.__init__ and _build_ui; dialog is the last message box shown and
\* polls the number of poll callbacks that self.after has pending.
AppInit ==
    [typer |-> 0, start_btn |-> "normal", stop_btn |-> "disabled",
     status |-> [msg |-> "Ready.", sec |-> 0], polls |-> 0, dialog |-> "none"]

\* What an entry of the panel holds: a number, or text float() rejects.
Entry(v) == [numeric |-> TRUE, value |-> v]
NotANumber == [numeric |-> FALSE, value |-> 0]

FormDefault ==
    [min_wpm |-> Entry(45), max_wpm |-> Entry(70), letter_typo |-> Entry(3),
     punct_typo |-> Entry(2), think |-> Entry(8), jitter |-> Entry(25),
     corr |-> TRUE]

TkIdle == [pc |-> "idle", input |-> <<>>, text |-> <<>>, pos |-> 0,
           tokens |-> <<>>, current |-> <<>>]

DlIdle == [pc |-> "idle", wpm |-> [num |-> 1, den |-> 1], jitter_std |-> 0,
           sample |-> [num |-> 0, den |-> 1], delay |-> [num |-> 0, den |-> 1]]

\* One typer with a status sink; the caller starts it once, with a
\* countdown of one second, on any text of at most MaxLen characters.
Init ==
    /\ Controller \in BOOLEAN
    /\ \E ec \in BOOLEAN :
          typers = <<NewTyper([DefaultSettings EXCEPT !.enable_corrections = ec], "sink")>>
    /\ threads = <<>>
    /\ input \in [text : TextsUpTo(TextChars, MaxLen), countdown : {1}]
    /\ starts_left = 1
    /\ app = AppInit
    /\ form = FormDefault
    /\ tk = TkIdle
    /\ dl = DlIdle

Next ==
    \/ Start
    \/ Stop
    \/ ThreadStep

Spec == Init /\ [][Next]_vars

LineChars == {"a", ",", "\n", "\r"}

\* One typer with corrections enabled or not; the caller starts it once on
\* a text of at most MaxLen characters with line endings of every kind.
InitLines ==
    /\ Controller \in BOOLEAN
    /\ \E ec \in BOOLEAN :
          typers = <<NewTyper([DefaultSettings EXCEPT !.enable_corrections = ec], "sink")>>
    /\ threads = <<>>
    /\ input \in [text : TextsUpTo(LineChars, MaxLen), countdown : {1}]
    /\ starts_left = 1
    /\ app = AppInit
    /\ form = FormDefault
    /\ tk = TkIdle
    /\ dl = DlIdle

SpecLines == InitLines /\ [][Next]_vars

----------------------------------------------------------------------------
(* The specification of start and stop sequences on one HumanTyper *)

CtlTexts == {<<>>, <<"a">>, <<",">>}

\* One typer, with or without a status sink; the caller starts it up to
\* MaxStarts times on a short text, with any countdown up to MaxCountdown.
InitCtl ==
    /\ Controller \in BOOLEAN
    /\ \E cb \in {"none", "sink"} : typers = <<NewTyper(DefaultSettings, cb)>>
    /\ threads = <<>>
    /\ input \in [text : CtlTexts, countdown : 0..MaxCountdown]
    /\ starts_left = MaxStarts
    /\ app = AppInit
    /\ form = FormDefault
    /\ tk = TkIdle
    /\ dl = DlIdle

SpecCtl == InitCtl /\ [][Next]_vars

----------------------------------------------------------------------------
(* The specification of one HumanTyper typing runs of word characters *)

WordChars == {"a", "b", "'", "_"}

\* letter_typo_rate of the typer, in percent: never, sometimes, always.
TypoRates == {0, 3, 100}

\* One typer with corrections enabled and any of the typo rates; the
\* caller starts it once on a text of at most MaxLen word characters.
InitWord ==
    /\ Controller = TRUE
    /\ \E r \in TypoRates :
          typers = <<NewTyper([DefaultSettings EXCEPT !.letter_typo_rate = r], "sink")>>
    /\ threads = <<>>
    /\ input \in [text : TextsUpTo(WordChars, MaxLen), countdown : {1}]
    /\ starts_left = 1
    /\ app = AppInit
    /\ form = FormDefault
    /\ tk = TkIdle
    /\ dl = DlIdle

SpecWord == InitWord /\ [][Next]_vars

----------------------------------------------------------------------------
(* App: the handlers of the Start and Stop buttons and the poll callback *)

\* _read_settings: the Settings it returns, or the message box it shows
\* before it raises.
ReadSettings(f) ==
    IF \E e \in {f.min_wpm, f.max_wpm, f.letter_typo, f.punct_typo,
                 f.think, f.jitter} : ~e.numeric
    THEN [ok |-> FALSE, dialog |-> "Invalid settings", settings |-> DefaultSettings]
    ELSE IF f.min_wpm.value <= 0 \/ f.max_wpm.value < f.min_wpm.value
    THEN [ok |-> FALSE, dialog |-> "Invalid WPM", settings |-> DefaultSettings]
    ELSE [ok |-> TRUE, dialog |-> "none",
          settings |-> [min_wpm |-> f.min_wpm.value,
                        max_wpm |-> f.max_wpm.value,
                        letter_typo_rate |-> f.letter_typo.value,
                        punct_typo_rate |-> f.punct_typo.value,
                        enable_corrections |-> f.corr,
                        think_pause_chance |-> f.think.value]]

\* on_start: the Start button is pressed.  The checks return early with a
\* message box; otherwise a new HumanTyper is made and started with a
\* countdown of 3, and a poll callback is scheduled.
OnStart ==
    LET text == input.text
        rs   == ReadSettings(form)
        y    == Len(typers) + 1
    IN
    /\ app.start_btn = "normal"
    /\ starts_left > 0
    /\ starts_left' = starts_left - 1
    /\ IF IsBlank(text)
       THEN /\ app' = [app EXCEPT !.dialog = "Empty text"]
            /\ UNCHANGED <<typers, threads>>
       ELSE IF ~Controller
       THEN /\ app' = [app EXCEPT !.dialog = "Missing dependency"]
            /\ UNCHANGED <<typers, threads>>
       ELSE IF ~rs.ok
       THEN /\ app' = [app EXCEPT !.dialog = rs.dialog]
            /\ UNCHANGED <<typers, threads>>
       ELSE /\ typers' = Append(typers, NewTyper(rs.settings, "post_status"))
            /\ threads' = Append(threads, NewThread(y, text, 3))
            /\ app' = [app EXCEPT
                         !.typer = y,
                         !.start_btn = "disabled",
                         !.stop_btn = "normal",
                         !.status = [msg |-> "Prepare target window. Typing starts after countdown...",
                                     sec |-> 0],
                         !.polls = @ + 1]
    /\ UNCHANGED <<Controller, input, form, tk, dl>>

\* poll: re-enables Start when the typer's stop flag is set, and
\* otherwise schedules itself again.
Poll ==
    /\ app.polls > 0
    /\ IF app.typer # 0 /\ typers[app.typer].stop_event
       THEN app' = [app EXCEPT !.start_btn = "normal", !.stop_btn = "disabled",
                               !.polls = @ - 1]
       ELSE app' = app
    /\ UNCHANGED <<Controller, typers, threads, input, starts_left, form, tk, dl>>

\* on_stop: the Stop button is pressed.
OnStop ==
    /\ app.stop_btn = "normal"
    /\ typers' = IF app.typer # 0
                 THEN [typers EXCEPT ![app.typer].stop_event = TRUE]
                 ELSE typers
    /\ app' = [app EXCEPT !.start_btn = "normal", !.stop_btn = "disabled",
                          !.status = [msg |-> "Stopped by user.", sec |-> 0]]
    /\ UNCHANGED <<Controller, threads, input, starts_left, form, tk, dl>>

\* Scheduling: the operating system keeps running a thread that can take
\* a step, and Tk's event loop runs a callback scheduled with after(); the
\* user is under no obligation to press a button.
AppFairness == WF_vars(ThreadStep) /\ WF_vars(Poll)

AppTexts == {<<>>, <<" ">>, <<"a">>, <<",">>}

\* The panels the user may have filled in.
Forms ==
    [min_wpm : {NotANumber, Entry(0), Entry(45)},
     max_wpm : {Entry(30), Entry(70)},
     letter_typo : {Entry(3), Entry(150)},
     punct_typo : {Entry(2), Entry(-5)},
     think : {Entry(8), Entry(150)},
     jitter : {Entry(25)},
     corr : {TRUE}]

\* The App after construction; the user presses Start at most
\* MaxAppStarts times.
InitApp ==
    /\ Controller \in BOOLEAN
    /\ typers = <<>>
    /\ threads = <<>>
    /\ input \in [text : AppTexts, countdown : {3}]
    /\ starts_left = MaxAppStarts
    /\ app = AppInit
    /\ form \in Forms
    /\ tk = TkIdle
    /\ dl = DlIdle

NextApp ==
    \/ OnStart
    \/ OnStop
    \/ Poll
    \/ ThreadStep

SpecApp == InitApp /\ [][NextApp]_vars

SpecAppFair == InitApp /\ [][NextApp]_vars /\ AppFairness

----------------------------------------------------------------------------
(* The specification of the tokenizer loop on its own *)

TokChars == {"a", "'", "_", ",", "-", " ", "\n", "\r"}

\* text = text.replace("\r\n", "\n").replace("\r", "\n")
TokNormalize ==
    /\ tk.pc = "normalize"
    /\ tk' = [tk EXCEPT !.pc = "scan", !.text = Normalize(tk.input)]
    /\ UNCHANGED <<Controller, typers, threads, input, starts_left, app, form, dl>>

\* One round of "for ch in text".
TokLoop ==
    /\ tk.pc = "scan"
    /\ tk.pos < Len(tk.text)
    /\ LET st == TokStep([tokens |-> tk.tokens, current |-> tk.current],
                         tk.text[tk.pos + 1])
       IN tk' = [tk EXCEPT !.pos = @ + 1, !.tokens = st.tokens,
                           !.current = st.current]
    /\ UNCHANGED <<Controller, typers, threads, input, starts_left, app, form, dl>>

\* The loop is over: the trailing run is flushed.
TokEnd ==
    /\ tk.pc = "scan"
    /\ tk.pos = Len(tk.text)
    /\ tk' = [tk EXCEPT !.pc = "done", !.current = <<>>,
                        !.tokens = TokFlush([tokens |-> tk.tokens,
                                             current |-> tk.current])]
    /\ UNCHANGED <<Controller, typers, threads, input, starts_left, app, form, dl>>

InitTok ==
    /\ Controller = TRUE
    /\ typers = <<>>
    /\ threads = <<>>
    /\ input = [text |-> <<>>, countdown |-> 0]
    /\ starts_left = 0
    /\ app = AppInit
    /\ form = FormDefault
    /\ tk \in [pc : {"normalize"}, input : TextsUpTo(TokChars, MaxTokLen),
               text : {<<>>}, pos : {0}, tokens : {<<>>}, current : {<<>>}]
    /\ dl = DlIdle

NextTok == TokNormalize \/ TokLoop \/ TokEnd

SpecTok == InitTok /\ [][NextTok]_vars

----------------------------------------------------------------------------
(* The per-character delay, computed on exact rationals num/den, den > 0 *)

Rat(n, d) == [num |-> n, den |-> d]

RatLeq(a, b) == a.num * b.den <= b.num * a.den

RatLess(a, b) == a.num * b.den < b.num * a.den

RatEq(a, b) == a.num * b.den = b.num * a.den

RatMax(a, b) == IF RatLess(a, b) THEN b ELSE a

RatMin(a, b) == IF RatLess(b, a) THEN b ELSE a

RatTimes(k, a) == Rat(k * a.num, a.den)

\* 12.0 / max(wpm, 1.0)
secs_per_char_for_wpm(wpm) ==
    LET m == RatMax(wpm, Rat(1, 1)) IN Rat(12 * m.den, m.num)

\* The 0.001 floor of the clamp.
MinDelay == Rat(1, 1000)

\* random.gauss(mu, sigma): mu itself when sigma is zero, otherwise any
\* real; a set of values below, inside and above the clamp's range.
Gauss(mu, sigma) ==
    IF sigma = 0 THEN {mu}
    ELSE {Rat(0 - 1, 1), Rat(0, 1), Rat(1, 2000), MinDelay,
          Rat(mu.num, 2 * mu.den), mu, RatTimes(2, mu),
          RatTimes(3, mu), RatTimes(4, mu), Rat(100, 1)}

\* max(0.001, min(jittered, base * 3)) without the outer max
char_delay_NoFloor(base_wpm, jittered) ==
    LET base == secs_per_char_for_wpm(base_wpm) IN
    RatMin(jittered, RatTimes(3, base))

\* _char_delay, given the value random.gauss returned
char_delay(base_wpm, jittered) ==
    LET base == secs_per_char_for_wpm(base_wpm) IN
    RatMax(MinDelay, RatMin(jittered, RatTimes(3, base)))

\* The words-per-minute values a call is made with, and settings.jitter_std
\* in percent.
WpmValues == {Rat(1, 2), Rat(1, 1), Rat(30, 1), Rat(45, 1), Rat(70, 1),
              Rat(110, 1), Rat(1000, 1), Rat(36000, 1), Rat(36001, 1),
              Rat(100000, 1)}

JitterStds == {0, 25}

InitDelay ==
    /\ Controller = TRUE
    /\ typers = <<>>
    /\ threads = <<>>
    /\ input = [text |-> <<>>, countdown |-> 0]
    /\ starts_left = 0
    /\ app = AppInit
    /\ form = FormDefault
    /\ tk = TkIdle
    /\ dl \in [pc : {"call"}, wpm : WpmValues, jitter_std : JitterStds,
               sample : {Rat(0, 1)}, delay : {Rat(0, 1)}]

CharDelay ==
    /\ dl.pc = "call"
    /\ \E jittered \in Gauss(secs_per_char_for_wpm(dl.wpm), dl.jitter_std) :
           dl' = [dl EXCEPT !.pc = "returned", !.sample = jittered,
                            !.delay = char_delay(dl.wpm, jittered)]
    /\ UNCHANGED <<Controller, typers, threads, input, starts_left, app, form, tk>>

NextDelay == CharDelay

SpecDelay == InitDelay /\ [][NextDelay]_vars

----------------------------------------------------------------------------
(* What a thread did, read from its record *)

\* The keys sent while processing the current token, or the last one
\* when the thread is back at the head of the loop.
TokKeys(th) == SubSeq(th.keys, th.tok_start + 1, Len(th.keys))

\* The text a sequence of keys leaves on an empty line.
RECURSIVE Visible(_)
Visible(keys) ==
    IF keys = <<>> THEN <<>>
    ELSE LET before == Visible(Prefix(keys, Len(keys) - 1))
             last   == keys[Len(keys)]
         IN IF last = BACKSPACE
            THEN Prefix(before, IF before = <<>> THEN 0 ELSE Len(before) - 1)
            ELSE Append(before, last)

\* The thread has finished a token and is back at the head of the loop.
TokenDone(th) == th.pc = "loop" /\ th.i >= 1

\* No stop was requested on the thread's typer.
Uncancelled(th) == ~th.observed /\ ~typers[th.typer].stop_event

\* The thread is in the middle of a token.
Processing(th) == th.pc \in {"slow", "backspace", "after_typo"}

\* The token the thread is processing, or the one it has just finished.
CurToken(th) == IF Processing(th) THEN th.tokens[th.i + 1] ELSE th.tokens[th.i]

\* The token is a run of letters, digits, apostrophes and underscores.
IsWordRun(token) == \A k \in 1..Len(token) : IsWordChar(token[k])

IsPrefix(s, r) == Len(s) <= Len(r) /\ s = Prefix(r, Len(s))

\* The messages of a whole session with the given countdown.
ExpectedStatus(n) ==
    <<Preparing>> \o [k \in 1..n |-> StartsIn(n - k + 1)] \o <<TypingMsg, DoneMsg>>

\* The configuration invariants on the entries of the panel.
ValidConfiguration(f) ==
    /\ \A e \in {f.min_wpm, f.max_wpm, f.letter_typo, f.punct_typo, f.think} :
          e.numeric
    /\ f.min_wpm.value > 0
    /\ f.max_wpm.value >= f.min_wpm.value
    /\ \A e \in {f.letter_typo, f.punct_typo, f.think} :
          e.value >= 0 /\ e.value <= 100

----------------------------------------------------------------------------
(* The claims *)

\* C1: when a substitution typo fired at index i of a word in an
\* uncancelled run, the keys sent for the word are word[:i], one wrong
\* character, one backspace and the word from index i on, and the text
\* they leave is the word.
C1_SubstitutionRestoresWord ==
    \A t \in DOMAIN threads :
        LET th   == threads[t]
            word == th.tokens[th.i]
            i    == th.tok_idx
            keys == TokKeys(th)
        IN (TokenDone(th) /\ Uncancelled(th) /\ th.tok_kind = "substitution")
           => /\ Len(keys) = Len(word) + 2
              /\ Prefix(keys, i) = Prefix(word, i)
              /\ keys[i + 1] # BACKSPACE
              /\ keys[i + 2] = BACKSPACE
              /\ Suffix(keys, i + 2) = Suffix(word, i)
              /\ Visible(keys) = word

\* C2: when a transposition typo fired at index i of a word in an
\* uncancelled run, the keys sent for the word are word[:i], the
\* characters at i+1 and i, two backspaces and the word from index i on,
\* and the text they leave is the word.
C2_TranspositionRestoresWord ==
    \A t \in DOMAIN threads :
        LET th   == threads[t]
            word == th.tokens[th.i]
            i    == th.tok_idx
            keys == TokKeys(th)
        IN (TokenDone(th) /\ Uncancelled(th) /\ th.tok_kind = "transposition")
           => /\ Len(keys) = Len(word) + 4
              /\ Prefix(keys, i + 2) = Prefix(word, i) \o <<word[i + 2], word[i + 1]>>
              /\ keys[i + 3] = BACKSPACE
              /\ keys[i + 4] = BACKSPACE
              /\ Suffix(keys, i + 4) = Suffix(word, i)
              /\ Visible(keys) = word

\* C3: once a thread has tested the stop flag and found it set, it sends
\* no further key to the keyboard.
C3_NoKeyAfterStopObserved ==
    [][\A t \in DOMAIN threads :
          threads[t].observed => threads'[t].keys = threads[t].keys]_vars

\* C4: at every round of the tokenizer the tokens, the current run and
\* the text still to scan concatenate to the normalised text, which holds
\* no carriage return; no token is empty and a token holding a non-word
\* character is that single character; at the end the tokens alone
\* concatenate to the normalised text.
C4_TokenizerRoundTrip ==
    tk.pc \in {"scan", "done"} =>
        /\ Concat(tk.tokens) \o tk.current \o Suffix(tk.text, tk.pos)
             = Normalize(tk.input)
        /\ \A k \in 1..Len(tk.text) : tk.text[k] # "\r"
        /\ \A k \in 1..Len(tk.tokens) :
              /\ tk.tokens[k] # <<>>
              /\ (\E j \in 1..Len(tk.tokens[k]) : ~IsWordChar(tk.tokens[k][j]))
                    => Len(tk.tokens[k]) = 1
        /\ tk.pc = "done" => Concat(tk.tokens) = Normalize(tk.input)

\* The tokenizer has finished a text that normalisation changed and that
\* holds a word of two characters or more next to other tokens.
C4_Witness ==
    /\ tk.pc = "done"
    /\ tk.text # tk.input
    /\ Len(tk.tokens) >= 2
    /\ \E k \in 1..Len(tk.tokens) : Len(tk.tokens[k]) >= 2

\* C5: at most one thread of a HumanTyper is live at any time.
C5_AtMostOneLiveTask ==
    \A y \in DOMAIN typers :
        Cardinality({t \in DOMAIN threads :
                        threads[t].typer = y /\ Live(threads[t])}) <= 1

\* C6: once the stop flag of a HumanTyper is set it is never cleared.
C6_StopFlagMonotonic ==
    [][\A y \in DOMAIN typers :
          typers[y].stop_event => typers'[y].stop_event]_vars

\* C7: the status sink receives from a session, in this order, the
\* preparing message, one countdown message per second n, n-1, ..., 1,
\* the typing message and one terminal message: what it has received is
\* always a prefix of that sequence, and the whole of it once the
\* session's thread has ended.
C7_StatusOrdering ==
    \A t \in DOMAIN threads :
        LET th == threads[t] IN
        typers[th.typer].ui_callback # "none"
           => /\ IsPrefix(th.sent, ExpectedStatus(th.countdown))
              /\ ~Live(th) => th.sent = ExpectedStatus(th.countdown)

\* C8: when the entries of the panel violate a configuration invariant,
\* pressing Start creates no HumanTyper and no thread and posts no status.
C8_InvalidConfigurationRejected ==
    ~ValidConfiguration(form)
       => /\ typers = <<>>
          /\ threads = <<>>
          /\ app.status = AppInit.status

\* C9: a session of a HumanTyper without a keyboard emits no countdown
\* message, does not reach the typing status and sends no key.
C9_DependencyUnavailablePreflight ==
    \A t \in DOMAIN threads :
        LET th == threads[t] IN
        ~typers[th.typer].keyboard
           => /\ \A k \in 1..Len(th.sent) :
                    th.sent[k].msg \notin {StartsIn(0).msg, TypingMsg.msg}
              /\ th.keys = <<>>

\* C10: a session whose keyboard call failed has its stop flag set and
\* has delivered a terminal status as its last message.
C10_ActuatorFailureReported ==
    \A t \in DOMAIN threads :
        LET th == threads[t] IN
        th.exc = "ActuatorError"
           => /\ typers[th.typer].stop_event
              /\ th.sent # <<>>
              /\ th.sent[Len(th.sent)] \notin {Preparing, TypingMsg}
              /\ th.sent[Len(th.sent)].msg # StartsIn(0).msg


\* C11: when a punctuation typo fired on a token p in an uncancelled run,
\* the keys sent for the token are one member of the punctuation set
\* other than p, one backspace and p, and the text they leave is p.
C11_PunctTypoRestoresPunct ==
    \A t \in DOMAIN threads :
        LET th   == threads[t]
            p    == th.tokens[th.i]
            keys == TokKeys(th)
        IN (TokenDone(th) /\ Uncancelled(th) /\ th.tok_kind = "punct")
           => /\ IsPunct(p)
              /\ Len(keys) = 3
              /\ keys[1] \in PUNCTUATION_SET \ {p[1]}
              /\ keys[2] = BACKSPACE
              /\ keys[3] = p[1]
              /\ Visible(keys) = p

\* A thread has finished a punctuation token on which the typo fired, in
\* an uncancelled run.
C11_Witness ==
    \E t \in DOMAIN threads :
        /\ TokenDone(threads[t])
        /\ Uncancelled(threads[t])
        /\ threads[t].tok_kind = "punct"
        /\ Len(TokKeys(threads[t])) = 3


\* C12: whatever the typo rate and the random draws, a run of word
\* characters shorter than 3 gets no letter typo: the keys sent for it are
\* a prefix of the run, with no wrong key and no backspace; and no token
\* shorter than 4 gets a transposition typo.
C12_TypoEligibility ==
    \A t \in DOMAIN threads :
        LET th == threads[t] IN
        (Processing(th) \/ TokenDone(th))
           => /\ (IsWordRun(CurToken(th)) /\ Len(CurToken(th)) < 3)
                    => /\ th.tok_kind = "none"
                       /\ IsPrefix(TokKeys(th), CurToken(th))
              /\ th.tok_kind = "transposition" => Len(CurToken(th)) >= 4

\* A typer whose typo rate is 100% has finished a word of two characters.
C12_Witness ==
    \E t \in DOMAIN threads :
        LET th == threads[t] IN
        /\ TokenDone(th)
        /\ typers[th.typer].settings.letter_typo_rate = 100
        /\ th.branch = "word"
        /\ Len(CurToken(th)) = 2
        /\ TokKeys(th) = CurToken(th)


\* C13 as written: for every WPM >= 1 the delay returned by _char_delay lies
\* in [0.001, 3 * baseDelay] with baseDelay = 12 / max(WPM, 1).
C13_DelayInRangeAnyWpm ==
    (dl.pc = "returned" /\ RatLeq(Rat(1, 1), dl.wpm))
       => /\ RatLeq(MinDelay, dl.delay)
          /\ RatLeq(dl.delay, RatTimes(3, secs_per_char_for_wpm(dl.wpm)))

\* C13 amended: for every WPM with 1 <= WPM <= 36000 the delay returned by
\* _char_delay lies in [0.001, 3 * baseDelay]; for a larger WPM 3 * baseDelay
\* is below 0.001 and the delay is 0.001.
C13_DelayInRange ==
    (dl.pc = "returned" /\ RatLeq(Rat(1, 1), dl.wpm))
       => IF RatLeq(dl.wpm, Rat(36000, 1))
          THEN /\ RatLeq(MinDelay, dl.delay)
               /\ RatLeq(dl.delay, RatTimes(3, secs_per_char_for_wpm(dl.wpm)))
          ELSE RatEq(dl.delay, MinDelay)

\* A call at 45 WPM whose sample fell below the floor returned 0.001.
C13_Witness ==
    /\ dl.pc = "returned"
    /\ RatEq(dl.wpm, Rat(45, 1))
    /\ RatLess(dl.sample, MinDelay)
    /\ RatEq(dl.delay, MinDelay)


\* C14: the backspaces sent while processing a token never outnumber the
\* characters typed so far while processing that token.
C14_BackspacesWithinToken ==
    \A t \in DOMAIN threads :
        LET keys == TokKeys(threads[t])
            bs   == {k \in DOMAIN keys : keys[k] = BACKSPACE}
        IN  2 * Cardinality(bs) <= Len(keys)


\* C15: when a duplication typo fired at index i of a word in an
\* uncancelled run, the keys sent for the word are word[:i+1], one more
\* copy of word[i], one backspace and the characters after index i, and
\* the text they leave is the word.
C15_DuplicateRestoresWord ==
    \A t \in DOMAIN threads :
        LET th   == threads[t]
            word == th.tokens[th.i]
            i    == th.tok_idx
            keys == TokKeys(th)
        IN (TokenDone(th) /\ Uncancelled(th) /\ th.tok_kind = "duplicate")
           => /\ keys = Prefix(word, i + 1) \o <<word[i + 1], BACKSPACE>>
                           \o Suffix(word, i + 1)
              /\ Visible(keys) = word

\* C16: when an omission typo fired at an interior index i of a word in an
\* uncancelled run, the keys sent for the word are word[:i], i backspaces,
\* word[:i] again and the word from index i on, and the text they leave is
\* the word.
C16_OmissionRestoresWord ==
    \A t \in DOMAIN threads :
        LET th   == threads[t]
            word == th.tokens[th.i]
            i    == th.tok_idx
            keys == TokKeys(th)
        IN (TokenDone(th) /\ Uncancelled(th) /\ th.tok_kind = "omission")
           => /\ Len(word) >= 3
              /\ 1 <= i /\ i <= Len(word) - 2
              /\ keys = Prefix(word, i) \o [k \in 1..i |-> BACKSPACE]
                           \o Prefix(word, i) \o Suffix(word, i)
              /\ Visible(keys) = word

\* An uncancelled thread has finished a four-character word whose omission
\* typo fired at index 2.
C16_Witness ==
    \E t \in DOMAIN threads :
        LET th == threads[t] IN
        /\ TokenDone(th) /\ Uncancelled(th)
        /\ th.tok_kind = "omission"
        /\ Len(th.tokens[th.i]) = 4
        /\ th.tok_idx = 2


\* C17: every token that is a non-empty run of letters, digits, apostrophes
\* and underscores is processed by the word branch of the loop.
C17_WordRunsTakeWordBranch ==
    \A t \in DOMAIN threads :
        LET th == threads[t] IN
        ((Processing(th) \/ TokenDone(th)) /\ IsWordRun(CurToken(th)))
           => th.branch = "word"


\* C18: a thread that waits in a countdown tick while the stop flag of its
\* typer is set emits no further status message: no countdown message and
\* no "Typing...".
C18_StopEndsCountdown ==
    [][\A t \in DOMAIN threads :
          LET th == threads[t] IN
          (th.pc = "countdown" /\ th.sec < th.countdown
             /\ typers[th.typer].stop_event)
             => threads'[t].sent = th.sent]_vars


\* C20: the Start button of the App is enabled only while no thread
\* started earlier is live, and at most one thread is live at any time.
C20_OneAppSession ==
    /\ app.start_btn = "normal" => \A t \in DOMAIN threads : ~Live(threads[t])
    /\ Cardinality({t \in DOMAIN threads : Live(threads[t])}) <= 1


\* C19: once the App has started a session and every thread has returned
\* from run(), the Start button is eventually enabled and the Stop button
\* disabled.
C19_StartReenabled ==
    (app.typer # 0 /\ \A t \in DOMAIN threads : threads[t].pc = "done")
       ~> (app.start_btn = "normal" /\ app.stop_btn = "disabled")


\* The keys that type the whole text of a thread: its normalized text with
\* each "\n" sent as the enter key.
ExpectedKeys(th) ==
    LET norm == Normalize(th.text) IN
    [k \in 1..Len(norm) |-> IF norm[k] = "\n" THEN ENTER ELSE norm[k]]

\* C21: on a typer with enable_corrections false no backspace is ever
\* sent, the keys sent are at every moment a prefix of the normalized text
\* with each newline sent as enter, and they are the whole of it when the
\* session has completed without cancellation.
C21_NoCorrectionsPlainTyping ==
    \A t \in DOMAIN threads :
        LET th == threads[t] IN
        ~typers[th.typer].settings.enable_corrections
           => /\ \A k \in 1..Len(th.keys) : th.keys[k] # BACKSPACE
              /\ IsPrefix(th.keys, ExpectedKeys(th))
              /\ (th.pc = "done" /\ Uncancelled(th)) => th.keys = ExpectedKeys(th)

\* A typer with corrections disabled has completed, uncancelled, a text
\* of four characters holding a three-letter word and a carriage return.
C21_Witness ==
    \E t \in DOMAIN threads :
        LET th == threads[t] IN
        /\ ~typers[th.typer].settings.enable_corrections
        /\ th.pc = "done" /\ Uncancelled(th)
        /\ th.text = <<"a", "a", "a", "\r">>
        /\ th.keys = <<"a", "a", "a", ENTER>>

====
